---- MODULE Spec2Model ----
(***************************************************************************)
(* Model of prometheus-elb-discovery.go: the tag-spec parser, the health   *)
(* filter, the grouping engine, the serializer, the atomic publisher and   *)
(* the main pipeline that chains them.                                     *)
(*                                                                         *)
(* Strings are sequences of one-character strings, so that splitting,      *)
(* concatenation and byte-wise comparison are computed as Go computes      *)
(* them.  The encoded document is a sequence of byte fragments: the fixed  *)
(* JSON punctuation as whole fragments, the data strings character by      *)
(* character.                                                              *)
(***************************************************************************)
EXTENDS Integers, Sequences, FiniteSets, TLC

VARIABLES
    pc,                 \* position of main(): the step about to run, or how it ended
    tagsRaw,            \* the -tags flag
    tags,               \* var tags Tags (line 26)
    port,               \* var port int (line 22)
    dest,               \* var dest string (line 21)
    unCheckedInstances, \* main: ids of the load balancer's members
    respHealth,         \* main: DescribeInstanceHealth's InstanceStates
    healthyInstances,   \* main: result of filterHealthyInstances
    instances,          \* main: flattened DescribeInstances result
    tagKeys,            \* main: the grouping keys
    targetGroups,       \* groupByTags: map signature -> TargetGroup
    gi,                 \* groupByTags: index of the next instance of the loop
    keys,               \* marshalTargetGroups: the sorted signatures
    tgList,             \* marshalTargetGroups: the groups in the order encoded
    b,                  \* main: the encoded document
    fs,                 \* the file system: path -> content, or NoFile
    stdout,             \* bytes written to os.Stdout
    calls,              \* the calls made so far, in order, each with its success
    renamed,            \* whether os.Rename has succeeded
    prev,               \* the content of dest before the run
    observed,           \* what a concurrent reader of dest last saw
    prevB,              \* the document of the previous run on the same input
    runs                \* number of completed runs on this input

vars == <<pc, tagsRaw, tags, port, dest, unCheckedInstances, respHealth,
          healthyInstances, instances, tagKeys, targetGroups, gi, keys, tgList,
          b, fs, stdout, calls, renamed, prev, observed, prevB, runs>>

----------------------------------------------------------------------------
(* Bounds of the model *)

\* most members the load balancer has in the pipeline's specification
MaxInstances == 2
\* most instances handed to groupByTags in the grouping engine's specification
MaxGroupInstances == 2

----------------------------------------------------------------------------
(* Strings *)

Nil == <<"nil">>          \* a nil *string: no sequence of characters equals it
NoFile == <<"nofile">>    \* the content of a path that does not exist

\* the byte value of a character
Ord(c) ==
    CASE c = "," -> 44 [] c = "-" -> 45 [] c = "." -> 46
      [] c = "0" -> 48 [] c = "1" -> 49 [] c = "2" -> 50 [] c = "3" -> 51
      [] c = "4" -> 52 [] c = "5" -> 53 [] c = "6" -> 54 [] c = "7" -> 55
      [] c = "8" -> 56 [] c = "9" -> 57 [] c = ":" -> 58 [] c = "=" -> 61
      [] c = "A" -> 65 [] c = "B" -> 66 [] c = "a" -> 97 [] c = "e" -> 101
      [] c = "g" -> 103 [] c = "k" -> 107 [] c = "n" -> 110 [] c = "o" -> 111
      [] c = "t" -> 116 [] c = "w" -> 119 [] c = "x" -> 120 [] c = "y" -> 121
      [] c = "|" -> 124

\* Go's s < t on strings: byte-wise lexicographic
StrLess(s, t) ==
    \E i \in 1..(Len(s) + 1) :
        /\ \A j \in 1..(i - 1) : j <= Len(t) /\ s[j] = t[j]
        /\ \/ i = Len(s) + 1 /\ Len(t) >= i
           \/ i <= Len(s) /\ i <= Len(t) /\ Ord(s[i]) < Ord(t[i])

\* Insert with the comparison left out
InsertInFront(x, sorted) == <<x>> \o sorted

RECURSIVE Insert(_, _)
Insert(x, sorted) ==
    IF sorted = <<>> THEN <<x>>
    ELSE IF StrLess(x, Head(sorted)) THEN <<x>> \o sorted
    ELSE <<Head(sorted)>> \o Insert(x, Tail(sorted))

RECURSIVE SortStrings(_)
\* sort.Strings: the strings in ascending order
SortStrings(ss) ==
    IF ss = <<>> THEN <<>> ELSE Insert(Head(ss), SortStrings(Tail(ss)))

\* the orders in which ranging over a Go map may visit its key set S
MapOrders(S) ==
    {o \in [1..Cardinality(S) -> S] : \A i, j \in DOMAIN o : i # j => o[i] # o[j]}

RECURSIVE Split(_, _)
\* strings.Split(s, sep) for a one-character sep: always at least one field
Split(s, sep) ==
    IF \A i \in DOMAIN s : s[i] # sep THEN <<s>>
    ELSE LET i == CHOOSE k \in DOMAIN s :
                      s[k] = sep /\ \A j \in 1..(k - 1) : s[j] # sep
         IN <<SubSeq(s, 1, i - 1)>> \o Split(SubSeq(s, i + 1, Len(s)), sep)

RECURSIVE Digits(_)
Digits(n) ==
    LET d == <<"0", "1", "2", "3", "4", "5", "6", "7", "8", "9">>[(n % 10) + 1]
    IN IF n < 10 THEN <<d>> ELSE Digits(n \div 10) \o <<d>>

\* fmt's %d
Itoa(n) == IF n < 0 THEN <<"-">> \o Digits(-n) ELSE Digits(n)

----------------------------------------------------------------------------
(* Program constants *)

\* the lifecycle code of a running instance
Running == 16
\* the default of the -port flag
DefaultPort == 80

InService == "InService"
StdoutDest == <<"-">>                      \* the default of the -dest flag
TmpSuffix == <<".", "n", "e", "w">>       \* ".new"

----------------------------------------------------------------------------
(* The pure functions of the program *)

\* filterHealthyInstances with the test of line 46 left out
filterNothing(states) == [i \in DOMAIN states |-> states[i].InstanceId]

RECURSIVE filterHealthyInstances(_)
\* the ids, in input order, of the states whose State is exactly "InService"
filterHealthyInstances(states) ==
    IF states = <<>> THEN <<>>
    ELSE (IF Head(states).State = InService
          THEN <<Head(states).InstanceId>> ELSE <<>>)
         \o filterHealthyInstances(Tail(states))

\* the value of the first tag of the instance with this key, "" if there is none
getTag(instance, key) ==
    LET ts == instance.Tags
    IN IF \E i \in DOMAIN ts : ts[i].Key = key
       THEN ts[CHOOSE i \in DOMAIN ts :
                   ts[i].Key = key /\ \A j \in 1..(i - 1) : ts[j].Key # key].Value
       ELSE <<>>

RECURSIVE Signature(_, _)
\* groupByTags, lines 72-75: key = Sprintf("%s|%s=%s", key, tagKey, getTag(..))
Signature(instance, tagList) ==
    IF tagList = <<>> THEN <<>>
    ELSE LET n == Len(tagList)
             tagKey == tagList[n]
         IN Signature(instance, SubSeq(tagList, 1, n - 1))
            \o <<"|">> \o tagKey \o <<"=">> \o getTag(instance, tagKey)

\* groupByTags, lines 79-85: the labels of a new group, empty values left out
NewLabels(instance, tagList) ==
    LET ks == {tagList[i] : i \in DOMAIN tagList}
    IN [k \in {k \in ks : getTag(instance, k) # <<>>} |-> getTag(instance, k)]

\* groupByTags, line 93: Sprintf("%s:%d", *instance.PrivateIpAddress, port)
Target(instance, p) == instance.PrivateIpAddress \o <<":">> \o Itoa(p)

\* groupByTags, lines 77-91: the map after the lookup or creation of the group
WithGroup(tg, instance, tagList) ==
    LET key == Signature(instance, tagList)
    IN IF key \in DOMAIN tg THEN tg
       ELSE [k \in DOMAIN tg \cup {key} |->
                IF k = key
                THEN [Labels |-> NewLabels(instance, tagList), Targets |-> <<>>]
                ELSE tg[k]]

\* WithTarget with the target put in front of the group's targets
WithTargetInFront(tg, instance, tagList, p) ==
    LET key == Signature(instance, tagList)
    IN [tg EXCEPT ![key].Targets = <<Target(instance, p)>> \o @]

\* groupByTags, lines 93-94: the target appended to the instance's group
WithTarget(tg, instance, tagList, p) ==
    LET key == Signature(instance, tagList)
    IN [tg EXCEPT ![key].Targets = Append(@, Target(instance, p))]

\* groupByTags, line 68: instances that are not running are skipped
Skipped(instance) == instance.State.Code # Running

\* groupByTags, line 93: dereferencing a nil PrivateIpAddress panics
Panics(instance) == ~Skipped(instance) /\ instance.PrivateIpAddress = Nil

\* one iteration of the loop of groupByTags on an instance that does not panic
GroupInstance(tg, instance, tagList, p) ==
    IF Skipped(instance) THEN tg
    ELSE WithTarget(WithGroup(tg, instance, tagList), instance, tagList, p)

EmptyMap == <<>>     \* make(map[string]*TargetGroup): the function of empty domain

RECURSIVE GroupFrom(_, _, _, _)
GroupFrom(tg, insts, tagList, p) ==
    IF insts = <<>> THEN tg
    ELSE GroupFrom(GroupInstance(tg, Head(insts), tagList, p),
                   Tail(insts), tagList, p)

\* groupByTags on instances none of which panics
groupByTags(insts, tagList, p) == GroupFrom(EmptyMap, insts, tagList, p)

RECURSIVE Join(_, _)
Join(parts, sep) ==
    IF parts = <<>> THEN <<>>
    ELSE IF Len(parts) = 1 THEN parts[1]
    ELSE parts[1] \o sep \o Join(Tail(parts), sep)

\* encoding/json of a string none of whose characters is escaped
EncodeString(s) == <<"\"">> \o s \o <<"\"">>

EncodeTargets(ts) ==
    IF ts = <<>> THEN <<"[]">>
    ELSE <<"[\n">>
         \o Join([i \in DOMAIN ts |-> <<"      ">> \o EncodeString(ts[i])], <<",\n">>)
         \o <<"\n", "    ]">>

\* encoding/json writes a map's entries sorted by key
EncodeLabels(labels) ==
    IF DOMAIN labels = {} THEN <<"{}">>
    ELSE LET ks == SortStrings(CHOOSE o \in MapOrders(DOMAIN labels) : TRUE)
         IN <<"{\n">>
            \o Join([i \in DOMAIN ks |->
                       <<"      ">> \o EncodeString(ks[i]) \o <<": ">>
                       \o EncodeString(labels[ks[i]])], <<",\n">>)
            \o <<"\n", "    }">>

EncodeGroup(g) ==
    <<"  {\n", "    \"targets\": ">> \o EncodeTargets(g.Targets)
    \o <<",\n", "    \"labels\": ">> \o EncodeLabels(g.Labels)
    \o <<"\n", "  }">>

\* json.MarshalIndent(tgList, "", "  ")
MarshalIndent(list) ==
    IF list = <<>> THEN <<"[]">>
    ELSE <<"[\n">> \o Join([i \in DOMAIN list |-> EncodeGroup(list[i])], <<",\n">>)
         \o <<"\n", "]">>

\* SortedKeys with sort.Strings left out
UnsortedKeys(order) == order

\* marshalTargetGroups, lines 103-107: the keys in map order, then sorted
SortedKeys(order) == SortStrings(order)

\* marshalTargetGroups, lines 108-110
TgList(tg, ks) == [i \in DOMAIN ks |-> tg[ks[i]]]

TagKeyFilter == <<"t", "a", "g", "-", "k", "e", "y">>   \* "tag-key"
TagPrefix == <<"t", "a", "g", ":">>                      \* "tag:"

\* parseTags, lines 160-161: a field with more than one "=" is fatal
Unrecognized(t) == Len(Split(t, "=")) > 2

\* parseTags, lines 146-159: the Tag of a field with at most one "="
ParseField(t) ==
    LET parts == Split(t, "=")
    IN IF Len(parts) = 1
       THEN [Key |-> t, FilterName |-> TagKeyFilter, FilterValue |-> t]
       ELSE [Key |-> parts[1], FilterName |-> TagPrefix \o parts[1],
             FilterValue |-> parts[2]]

\* parseTags: [fatal |-> TRUE] when log.Fatalf ends the process
parseTags(raw) ==
    LET fields == Split(raw, ",")
    IN IF fields[1] = <<>> /\ Len(fields) = 1
       THEN [fatal |-> FALSE, tags |-> <<>>]
       ELSE IF \E i \in DOMAIN fields : Unrecognized(fields[i])
       THEN [fatal |-> TRUE, tags |-> <<>>]
       ELSE [fatal |-> FALSE, tags |-> [i \in DOMAIN fields |-> ParseField(fields[i])]]

RECURSIVE KeysFrom(_, _)
KeysFrom(ts, seen) ==
    IF ts = <<>> THEN <<>>
    ELSE IF Head(ts).Key \in seen THEN KeysFrom(Tail(ts), seen)
    ELSE <<Head(ts).Key>> \o KeysFrom(Tail(ts), seen \cup {Head(ts).Key})

\* Tags.Keys: the keys without duplicates, in order of first occurrence
Keys(ts) == KeysFrom(ts, {})

\* allTagKeys, lines 180-185
TagSet(insts) ==
    UNION {{insts[i].Tags[j].Key : j \in DOMAIN insts[i].Tags} : i \in DOMAIN insts}

\* allTagKeys with sort.Strings left out
allTagKeysUnsorted(insts) == MapOrders(TagSet(insts))

\* allTagKeys: the results it may return, one per map iteration order
allTagKeys(insts) == {SortStrings(o) : o \in MapOrders(TagSet(insts))}

RECURSIVE flattenReservations(_)
flattenReservations(reservations) ==
    IF reservations = <<>> THEN <<>>
    ELSE Head(reservations).Instances \o flattenReservations(Tail(reservations))

----------------------------------------------------------------------------
(* The inputs *)

A == <<"A">>
B == <<"B">>
X == <<"x">>
Y == <<"y">>
Tag(k, v) == [Key |-> k, Value |-> v]

\* the private address of the instance with this id: distinct instances, distinct addresses
IpOf(id) == <<"1", "0", ".">> \o Itoa(id)

Instance(id, code, ip, ts) ==
    [InstanceId |-> id, State |-> [Code |-> code], PrivateIpAddress |-> ip, Tags |-> ts]

FilePath == <<"o">>                     \* a -dest that is a path
OldDoc == <<"[", "o", "l", "d", "]">>   \* what an earlier run left at the path
StaleTmp == <<"[", "o">>                \* what a failed earlier run left at path+".new"

\* -tags values: none, one key, a required value, a field with two "="
RawPool == {<<>>, A, <<"A", "=", "x">>, <<"A", "=", "x", "=", "y">>}

\* health states a load balancer reports
StatusPool == {InService, "OutOfService", "inservice"}

\* lifecycle codes: running, stopped
CodePool == {Running, 80}

\* the lifecycle code of a terminated instance, which has no private address
Terminated == 48

\* tag lists of an instance in the pipeline's specification
TagsPool == {<<>>, <<Tag(A, X)>>, <<Tag(A, Y)>>}

\* the records DescribeInstances may return for an id
InstancePool(id) ==
    {Instance(id, c, ip, ts) : c \in CodePool, ip \in {Nil, IpOf(id)}, ts \in TagsPool}

----------------------------------------------------------------------------
(* main *)

Call(op, ok) == [op |-> op, ok |-> ok]

\* main, lines 234-239, 256-261, 282-287: a failed call is printed and main
\* returns; next is the step a successful call leads to
AfterError(next) == "exit"

\* the text of an error, err.Error()
ErrText == "error"

\* fmt's text of a nil pointer
NilText == "<nil>"

\* main, lines 219 and 272: the first operand of the print
SessionFailed == "failed to create session,"

\* fmt.Println: the operands with a space between them and a newline after
\* them, written to the standard output
Println(args) == Join([i \in DOMAIN args |-> <<args[i]>>], <<" ">>) \o <<"\n">>

\* TmpPath with the suffix left out: the file is written in place
TmpPathInPlace(filename, tmpSuffix) == filename

\* atomicWriteFile, line 120: filename+tmpSuffix
TmpPath(filename, tmpSuffix) == filename \o tmpSuffix

Paths == {FilePath, TmpPath(FilePath, TmpSuffix)}

\* the locals of main and of the functions it calls, not yet assigned
Locals ==
    /\ unCheckedInstances = <<>>
    /\ respHealth = <<>>
    /\ healthyInstances = <<>>
    /\ tagKeys = <<>>
    /\ targetGroups = EmptyMap
    /\ gi = 1
    /\ keys = <<>>
    /\ tgList = <<>>
    /\ b = <<>>
    /\ stdout = <<>>
    /\ calls = <<>>
    /\ renamed = FALSE

Init ==
    /\ pc = "initFlags"
    /\ tagsRaw \in RawPool
    /\ tags = <<>>
    /\ port = DefaultPort
    /\ dest \in {StdoutDest, FilePath}
    /\ prev \in IF dest = StdoutDest THEN {NoFile} ELSE {NoFile, OldDoc}
    /\ fs \in {f \in [Paths -> {prev, NoFile, StaleTmp}] :
                  /\ f[FilePath] = prev
                  /\ \A p \in Paths \ {FilePath} :
                        f[p] = NoFile \/ (dest = FilePath /\ f[p] = StaleTmp)}
    /\ instances = <<>>
    /\ observed = prev
    /\ prevB = <<>>
    /\ runs = 0
    /\ Locals

\* initFlags, lines 207-208: the flags are parsed; a bad tag filter is fatal
InitFlags ==
    /\ pc = "initFlags"
    /\ LET r == parseTags(tagsRaw)
       IN /\ tags' = r.tags
          /\ pc' = IF r.fatal THEN "fatal" ELSE "NewSession"
    /\ UNCHANGED <<tagsRaw, port, dest, unCheckedInstances, respHealth,
                   healthyInstances, instances, tagKeys, targetGroups, gi, keys,
                   tgList, b, fs, stdout, calls, renamed, prev, observed, prevB, runs>>

\* main, lines 217-221: session.NewSession() for the load balancer's service;
\* when it fails main prints the error on the standard output and returns, no
\* call having been made
NewSession ==
    /\ pc = "NewSession"
    /\ \/ pc' = "DescribeLoadBalancers" /\ UNCHANGED stdout
       \/ /\ stdout' = stdout \o Println(<<SessionFailed, ErrText>>)
          /\ pc' = "exit"
    /\ UNCHANGED <<tagsRaw, tags, port, dest, unCheckedInstances, respHealth,
                   healthyInstances, instances, tagKeys, targetGroups, gi, keys,
                   tgList, b, fs, calls, renamed, prev, observed, prevB, runs>>

\* main, lines 270-274: session.NewSession() for the inventory's service; when
\* it fails main prints, on the standard output, the session it did not get
\* (line 272 passes ec2sess, a nil pointer, where line 219 passes err) and
\* returns
NewSessionEc2 ==
    /\ pc = "NewSessionEc2"
    /\ \/ pc' = "DescribeInstances" /\ UNCHANGED stdout
       \/ /\ stdout' = stdout \o Println(<<SessionFailed, NilText>>)
          /\ pc' = "exit"
    /\ UNCHANGED <<tagsRaw, tags, port, dest, unCheckedInstances, respHealth,
                   healthyInstances, instances, tagKeys, targetGroups, gi, keys,
                   tgList, b, fs, calls, renamed, prev, observed, prevB, runs>>

\* main, lines 232-245; a failed call has its error printed on the standard
\* output (line 237) before main returns
DescribeLoadBalancers ==
    /\ pc = "DescribeLoadBalancers"
    /\ \/ /\ calls' = Append(calls, Call("DescribeLoadBalancers", FALSE))
          /\ stdout' = stdout \o Println(<<ErrText>>)
          /\ pc' = AfterError("DescribeInstanceHealth")
          /\ UNCHANGED unCheckedInstances
       \/ \* no description in the response: LoadBalancerDescriptions[0] panics
          /\ calls' = Append(calls, Call("DescribeLoadBalancers", TRUE))
          /\ pc' = "panic: index out of range"
          /\ UNCHANGED <<unCheckedInstances, stdout>>
       \/ \E n \in 0..MaxInstances :
          /\ calls' = Append(calls, Call("DescribeLoadBalancers", TRUE))
          /\ unCheckedInstances' = [i \in 1..n |-> i]
          /\ pc' = "DescribeInstanceHealth"
          /\ UNCHANGED stdout
    /\ UNCHANGED <<tagsRaw, tags, port, dest, respHealth, healthyInstances,
                   instances, tagKeys, targetGroups, gi, keys, tgList, b, fs,
                   renamed, prev, observed, prevB, runs>>

\* main, lines 254-267; a failed call has its error printed on the standard
\* output (line 259) before main returns
DescribeInstanceHealth ==
    /\ pc = "DescribeInstanceHealth"
    /\ \/ /\ calls' = Append(calls, Call("DescribeInstanceHealth", FALSE))
          /\ stdout' = stdout \o Println(<<ErrText>>)
          /\ pc' = AfterError("NewSessionEc2")
          /\ UNCHANGED <<respHealth, healthyInstances>>
       \/ \E st \in [DOMAIN unCheckedInstances -> StatusPool] :
          /\ calls' = Append(calls, Call("DescribeInstanceHealth", TRUE))
          /\ respHealth' = [i \in DOMAIN unCheckedInstances |->
                               [InstanceId |-> unCheckedInstances[i], State |-> st[i]]]
          /\ healthyInstances' = filterHealthyInstances(respHealth')
          /\ pc' = "NewSessionEc2"
          /\ UNCHANGED stdout
    /\ UNCHANGED <<tagsRaw, tags, port, dest, unCheckedInstances, instances,
                   tagKeys, targetGroups, gi, keys, tgList, b, fs,
                   renamed, prev, observed, prevB, runs>>

\* main, lines 280-293; a failed call has its error logged (line 285,
\* log.Println, which writes to the standard error) before main returns, the
\* standard output staying as it is; the response of a successful call holds
\* one record per requested id, in one
\* reservation or in one reservation each
DescribeInstances ==
    /\ pc = "DescribeInstances"
    /\ \/ /\ calls' = Append(calls, Call("DescribeInstances", FALSE))
          /\ pc' = AfterError("tagKeys")
          /\ UNCHANGED instances
       \/ \E recs \in [DOMAIN healthyInstances ->
                         UNION {InstancePool(healthyInstances[i]) :
                                  i \in DOMAIN healthyInstances}] :
          \E together \in BOOLEAN :
          /\ \A i \in DOMAIN recs : recs[i].InstanceId = healthyInstances[i]
          /\ calls' = Append(calls, Call("DescribeInstances", TRUE))
          /\ instances' = flattenReservations(
                 IF together THEN <<[Instances |-> recs]>>
                 ELSE [i \in DOMAIN recs |-> [Instances |-> <<recs[i]>>]])
          /\ pc' = "tagKeys"
    /\ UNCHANGED <<tagsRaw, tags, port, dest, unCheckedInstances, respHealth,
                   healthyInstances, tagKeys, targetGroups, gi, keys, tgList, b,
                   fs, stdout, renamed, prev, observed, prevB, runs>>

\* main, lines 295-298, and the entry of groupByTags, line 65
TagKeys ==
    /\ pc = "tagKeys"
    /\ \/ /\ Len(Keys(tags)) # 0
          /\ tagKeys' = Keys(tags)
          /\ calls' = calls
       \/ /\ Len(Keys(tags)) = 0
          /\ tagKeys' \in allTagKeys(instances)
          /\ calls' = Append(calls, Call("allTagKeys", TRUE))
    /\ targetGroups' = EmptyMap
    /\ gi' = 1
    /\ pc' = "groupByTags"
    /\ UNCHANGED <<tagsRaw, tags, port, dest, unCheckedInstances, respHealth,
                   healthyInstances, instances, keys, tgList, b, fs, stdout,
                   renamed, prev, observed, prevB, runs>>

\* groupByTags, lines 67-95: one iteration of the loop
GroupStep ==
    /\ pc = "groupByTags"
    /\ gi <= Len(instances)
    /\ ~Panics(instances[gi])
    /\ targetGroups' = GroupInstance(targetGroups, instances[gi], tagKeys, port)
    /\ gi' = gi + 1
    /\ UNCHANGED <<pc, tagsRaw, tags, port, dest, unCheckedInstances, respHealth,
                   healthyInstances, instances, tagKeys, keys, tgList, b, fs,
                   stdout, calls, renamed, prev, observed, prevB, runs>>

\* groupByTags, lines 67-93: the iteration on a running instance with no address
\* makes its group, then panics on the nil pointer
GroupPanic ==
    /\ pc = "groupByTags"
    /\ gi <= Len(instances)
    /\ Panics(instances[gi])
    /\ targetGroups' = WithGroup(targetGroups, instances[gi], tagKeys)
    /\ pc' = "panic: nil pointer dereference"
    /\ UNCHANGED <<tagsRaw, tags, port, dest, unCheckedInstances, respHealth,
                   healthyInstances, instances, tagKeys, gi, keys, tgList, b, fs,
                   stdout, calls, renamed, prev, observed, prevB, runs>>

\* groupByTags, line 97, and marshalTargetGroups, lines 100-117
Marshal ==
    /\ pc = "groupByTags"
    /\ gi > Len(instances)
    /\ \E order \in MapOrders(DOMAIN targetGroups) :
          /\ keys' = SortedKeys(order)
          /\ tgList' = TgList(targetGroups, keys')
          /\ b' = MarshalIndent(tgList')
    /\ pc' = "write"
    /\ UNCHANGED <<tagsRaw, tags, port, dest, unCheckedInstances, respHealth,
                   healthyInstances, instances, tagKeys, targetGroups, gi, fs,
                   stdout, calls, renamed, prev, observed, prevB, runs>>

\* main, line 303: os.Stdout.Write(b) writes all of b, or a part of it, the
\* write then failing (line 308) or the process being killed in the middle
WriteStdout ==
    /\ pc = "write"
    /\ dest = StdoutDest
    /\ \E n \in 0..Len(b) :
          /\ stdout' = stdout \o SubSeq(b, 1, n)
          /\ IF n = Len(b) THEN pc' = "done" ELSE pc' \in {"fatal", "killed"}
    /\ UNCHANGED <<tagsRaw, tags, port, dest, unCheckedInstances, respHealth,
                   healthyInstances, instances, tagKeys, targetGroups, gi, keys,
                   tgList, b, fs, calls, renamed, prev, observed, prevB, runs>>

\* atomicWriteFile, line 120: WriteFile creates or truncates the temporary file
OpenTmp ==
    /\ pc = "write"
    /\ dest # StdoutDest
    /\ \/ /\ fs' = [fs EXCEPT ![TmpPath(dest, TmpSuffix)] = <<>>]
          /\ pc' = "writeTmp"
       \/ /\ fs' = fs
          /\ pc' = "fatal"
    /\ UNCHANGED <<tagsRaw, tags, port, dest, unCheckedInstances, respHealth,
                   healthyInstances, instances, tagKeys, targetGroups, gi, keys,
                   tgList, b, stdout, calls, renamed, prev, observed, prevB, runs>>

\* atomicWriteFile, lines 120-123: WriteFile writes on, or fails
WriteTmp ==
    /\ pc = "writeTmp"
    /\ LET tmp == TmpPath(dest, TmpSuffix)
           n == Len(fs[tmp]) + 1
       IN \/ /\ fs' = [fs EXCEPT ![tmp] = SubSeq(b, 1, n)]
             /\ pc' = IF n = Len(b) THEN "rename" ELSE "writeTmp"
          \/ /\ fs' = fs
             /\ pc' = "fatal"
    /\ UNCHANGED <<tagsRaw, tags, port, dest, unCheckedInstances, respHealth,
                   healthyInstances, instances, tagKeys, targetGroups, gi, keys,
                   tgList, b, stdout, calls, renamed, prev, observed, prevB, runs>>

\* atomicWriteFile, lines 124-128: os.Rename replaces dest, or fails
Rename ==
    /\ pc = "rename"
    /\ LET tmp == TmpPath(dest, TmpSuffix)
       IN \/ /\ fs' = [p \in Paths |-> IF p = dest THEN fs[tmp]
                                       ELSE IF p = tmp THEN NoFile ELSE fs[p]]
             /\ renamed' = TRUE
             /\ pc' = "done"
          \/ /\ fs' = fs
             /\ renamed' = renamed
             /\ pc' = "fatal"
    /\ UNCHANGED <<tagsRaw, tags, port, dest, unCheckedInstances, respHealth,
                   healthyInstances, instances, tagKeys, targetGroups, gi, keys,
                   tgList, b, stdout, calls, prev, observed, prevB, runs>>

\* the process is interrupted during the publication
Kill ==
    /\ pc \in {"write", "writeTmp", "rename"}
    /\ pc' = "killed"
    /\ UNCHANGED <<tagsRaw, tags, port, dest, unCheckedInstances, respHealth,
                   healthyInstances, instances, tagKeys, targetGroups, gi, keys,
                   tgList, b, fs, stdout, calls, renamed, prev, observed, prevB, runs>>

\* a concurrent reader reads the destination path
Read ==
    /\ dest # StdoutDest
    /\ observed' = fs[dest]
    /\ UNCHANGED <<pc, tagsRaw, tags, port, dest, unCheckedInstances, respHealth,
                   healthyInstances, instances, tagKeys, targetGroups, gi, keys,
                   tgList, b, fs, stdout, calls, renamed, prev, prevB, runs>>

Next ==
    \/ InitFlags
    \/ NewSession
    \/ DescribeLoadBalancers
    \/ DescribeInstanceHealth
    \/ NewSessionEc2
    \/ DescribeInstances
    \/ TagKeys
    \/ GroupStep
    \/ GroupPanic
    \/ Marshal
    \/ WriteStdout
    \/ OpenTmp
    \/ WriteTmp
    \/ Rename
    \/ Kill
    \/ Read

Spec == Init /\ [][Next]_vars

----------------------------------------------------------------------------
(* The grouping engine and the serializer on their own: main from line 295 *)
(* to line 301, on any parsed tag spec and any list of well-formed         *)
(* instance records, run twice on the same input.                          *)

Bar == <<"|", "B", "=">>     \* a tag value that reads like a piece of a signature

\* -tags values that parse
GroupRawPool ==
    {<<>>, A, B, <<"A", ",", "B">>, <<"B", ",", "A">>, <<"A", ",", "A">>,
     <<"A", "=", "x", ",", "B">>}

\* tag lists of an instance
GroupTagsPool ==
    {<<>>, <<Tag(A, X)>>, <<Tag(A, Y)>>, <<Tag(B, X)>>,
     <<Tag(A, X), Tag(B, Y)>>, <<Tag(B, Y), Tag(A, X)>>,
     <<Tag(A, Bar)>>, <<Tag(B, Bar)>>, <<Tag(A, <<>>), Tag(B, X)>>}

\* well-formed records: every one has its private address, but the terminated
GroupInstancePool(id) ==
    {Instance(id, c, IpOf(id), ts) : c \in CodePool, ts \in GroupTagsPool}
    \cup {Instance(id, Terminated, Nil, ts) : ts \in GroupTagsPool}

InstanceLists ==
    UNION {{l \in [1..n -> UNION {GroupInstancePool(id) : id \in 1..n}] :
               \A i \in 1..n : l[i].InstanceId = i} : n \in 0..MaxGroupInstances}

InitGroup ==
    /\ pc = "tagKeys"
    /\ tagsRaw \in GroupRawPool
    /\ tags = parseTags(tagsRaw).tags
    /\ port \in {DefaultPort, 9100}
    /\ dest = StdoutDest
    /\ prev = NoFile
    /\ fs = [p \in Paths |-> NoFile]
    /\ instances \in InstanceLists
    /\ observed = prev
    /\ prevB = <<>>
    /\ runs = 0
    /\ Locals

\* the program is run again on the same input
Rerun ==
    /\ pc = "write"
    /\ runs = 0
    /\ prevB' = b
    /\ runs' = runs + 1
    /\ pc' = "tagKeys"
    /\ tagKeys' = <<>>
    /\ targetGroups' = EmptyMap
    /\ gi' = 1
    /\ keys' = <<>>
    /\ tgList' = <<>>
    /\ b' = <<>>
    /\ calls' = <<>>
    /\ UNCHANGED <<tagsRaw, tags, port, dest, unCheckedInstances, respHealth,
                   healthyInstances, instances, fs, stdout, renamed, prev, observed>>

NextGroup ==
    \/ TagKeys
    \/ GroupStep
    \/ Marshal
    \/ Rerun

SpecGroup == InitGroup /\ [][NextGroup]_vars

----------------------------------------------------------------------------
(* What the claims speak of *)

\* every target of every group
AllTargets ==
    UNION {{targetGroups[k].Targets[j] : j \in DOMAIN targetGroups[k].Targets} :
             k \in DOMAIN targetGroups}

\* neither the standard output nor any path has been written: the destination
\* is as it was and the temporary path is absent or as a failed earlier run left
\* it (no run writes StaleTmp: a document starts with "[]" or "[\n")
Untouched ==
    /\ stdout = <<>>
    /\ fs[FilePath] = prev
    /\ \A p \in Paths \ {FilePath} : fs[p] \in {NoFile, StaleTmp}

Collaborators == <<"DescribeLoadBalancers", "DescribeInstanceHealth", "DescribeInstances">>

IsPrefix(s, t) == Len(s) <= Len(t) /\ s = SubSeq(t, 1, Len(s))

Healthy(id) ==
    \E h \in DOMAIN respHealth :
        respHealth[h].InstanceId = id /\ respHealth[h].State = InService

HasAddress(instance) == instance.PrivateIpAddress # Nil

HasRequiredValue(t) == t.FilterName # TagKeyFilter

\* the running instances the loop of groupByTags has gone through
Processed == {i \in DOMAIN instances : i < gi /\ ~Skipped(instances[i])}

MembersOf(k) == {i \in Processed : Signature(instances[i], tagKeys) = k}

\* the j-th smallest element of M
NthOf(M, j) == CHOOSE i \in M : Cardinality({m \in M : m < i}) = j - 1

LabelOf(g, k) == IF k \in DOMAIN g.Labels THEN g.Labels[k] ELSE <<>>

Grouping == pc \in {"groupByTags", "write"}

FallbackUsed == \E i \in DOMAIN calls : calls[i].op = "allTagKeys"

\* the index of the first selector with this key
FirstIndex(k) == CHOOSE i \in DOMAIN tags :
                    tags[i].Key = k /\ \A j \in 1..(i - 1) : tags[j].Key # k

----------------------------------------------------------------------------
(* The claims *)

\* C1: when publishing to a path, at every point of the publication (before,
\* during and after the write of dest+".new" and the rename, also when a step
\* fails or the run is interrupted) the destination, and so what a concurrent
\* reader sees of it, is the complete previous content (or no file) or the
\* complete new document, and it is the new document only once the rename has
\* succeeded.
C1_AtomicPublication ==
    dest # StdoutDest =>
        /\ fs[dest] = prev \/ (renamed /\ fs[dest] = b)
        /\ observed = prev \/ (renamed /\ observed = b)
        /\ renamed => fs[dest] = b

\* the run is interrupted while the temporary file holds a part of the document
C1_Witness ==
    /\ dest # StdoutDest
    /\ pc = "killed"
    /\ prev = OldDoc
    /\ observed = OldDoc
    /\ LET t == fs[TmpPath(dest, TmpSuffix)]
       IN t # NoFile /\ Len(t) > 0 /\ Len(t) < Len(b)

\* C2: a run produces one complete document or none. Anything is written (to
\* the standard output or to a path) only after the tag spec has parsed, the
\* three collaborator calls have succeeded in their order and the document is
\* encoded; a malformed tag spec ends the run before any collaborator call; a
\* failed collaborator call is the last call and ends the run with nothing
\* written; a run that completes has written the whole document. Refuted by
\* the error lines main prints on the standard output, the stream the
\* document goes to when the destination is "-".
C2_CompleteOrNone ==
    /\ ~Untouched =>
          /\ ~parseTags(tagsRaw).fatal
          /\ Len(calls) >= 3
          /\ \A i \in 1..3 : calls[i] = Call(Collaborators[i], TRUE)
          /\ b # <<>>
          /\ b = MarshalIndent(tgList)
          /\ IsPrefix(stdout, b)
    /\ parseTags(tagsRaw).fatal =>
          calls = <<>> /\ Untouched /\ pc \in {"initFlags", "fatal"}
    /\ \A i \in DOMAIN calls :
          ~calls[i].ok => i = Len(calls) /\ pc = "exit" /\ Untouched
    /\ pc = "done" => IF dest = StdoutDest THEN stdout = b ELSE fs[dest] = b

\* C3: every target of every group belongs to an instance that is running
\* (code 16) and whose health state is exactly "InService"; an instance that is
\* not running, or whose state is any other string, has its target in no group;
\* the document holds the groups' targets only.
C3_OnlyRunningInService ==
    /\ \A t \in AllTargets :
          \E i \in DOMAIN instances :
              /\ HasAddress(instances[i])
              /\ t = Target(instances[i], port)
              /\ instances[i].State.Code = Running
              /\ Healthy(instances[i].InstanceId)
    /\ \A i \in DOMAIN instances :
          HasAddress(instances[i]) /\ instances[i].State.Code # Running
              => Target(instances[i], port) \notin AllTargets
    /\ \A h \in DOMAIN respHealth :
          respHealth[h].State # InService
              => IpOf(respHealth[h].InstanceId) \o <<":">> \o Itoa(port) \notin AllTargets
    /\ \A i \in DOMAIN tgList : \E k \in DOMAIN targetGroups : tgList[i] = targetGroups[k]

\* a run has completed with a target, the load balancer having reported another
\* instance with a state that is not exactly "InService"
C3_Witness ==
    /\ pc = "done"
    /\ AllTargets # {}
    /\ \E h \in DOMAIN respHealth : respHealth[h].State = "inservice"

\* C4: an instance whose value for the key of a selector with a required value
\* differs from the required value (or is absent) has its target in no group.
C4_RequiredValueEnforced ==
    \A s \in DOMAIN tags :
        HasRequiredValue(tags[s]) =>
            \A i \in DOMAIN instances :
                HasAddress(instances[i])
                /\ getTag(instances[i], tags[s].Key) # tags[s].FilterValue
                    => Target(instances[i], port) \notin AllTargets

\* C5: an instance with no private address does not abort groupByTags, and the
\* groups are those of the input without the instances that have no address.
C5_NoAddressSilentlyExcluded ==
    /\ pc # "panic: nil pointer dereference"
    /\ b # <<>> =>
          targetGroups = groupByTags(SelectSeq(instances, HasAddress), tagKeys, port)

\* C6: for every instance that has contributed a target to a group and every
\* grouping key, the instance's value for the key (empty if absent) is the
\* group's label for the key (empty if absent); no label holds an empty value.
C6_LabelsDescribeContributors ==
    Grouping =>
        /\ \A i \in Processed :
              LET g == targetGroups[Signature(instances[i], tagKeys)]
              IN \A n \in DOMAIN tagKeys :
                    getTag(instances[i], tagKeys[n]) = LabelOf(g, tagKeys[n])
        /\ \A k \in DOMAIN targetGroups :
              \A l \in DOMAIN targetGroups[k].Labels : targetGroups[k].Labels[l] # <<>>

\* C7: a second run on the same instance records and selectors yields the same
\* bytes as the first, whatever the orders in which the maps were ranged over.
C7_Deterministic == runs = 1 /\ pc = "write" => b = prevB

\* the second run has encoded two groups under keys found by the fallback
C7_Witness ==
    /\ runs = 1
    /\ pc = "write"
    /\ Len(tgList) = 2
    /\ FallbackUsed
    /\ Len(tagKeys) = 2

\* C8: marshalTargetGroups encodes one element per entry of the map, in
\* strictly ascending byte-wise order of the signatures, the i-th element being
\* the group of the i-th signature.
C8_SortedBySignature ==
    pc = "write" =>
        /\ Len(keys) = Cardinality(DOMAIN targetGroups)
        /\ {keys[i] : i \in DOMAIN keys} = DOMAIN targetGroups
        /\ \A i, j \in DOMAIN keys : i < j => StrLess(keys[i], keys[j])
        /\ Len(tgList) = Len(keys)
        /\ \A i \in DOMAIN keys : tgList[i] = targetGroups[keys[i]]
        /\ b = MarshalIndent(tgList)

\* two groups are encoded, the one created first coming second
C8_Witness ==
    /\ pc = "write"
    /\ Len(keys) = 2
    /\ Len(instances) >= 1
    /\ ~Skipped(instances[1])
    /\ keys[2] = Signature(instances[1], tagKeys)
    /\ keys[1] = <<"|", "A", "=", "x">>
    /\ keys[2] = <<"|", "A", "=", "y">>

\* C9: the fallback is used iff the parsed selector sequence is empty; if it is
\* not, the grouping keys are the selectors' keys without duplicates in order
\* of first occurrence; if it is, they are the tag keys present on any
\* instance, running or not, each once, in strictly ascending order.
C9_GroupingKeys ==
    Grouping =>
        /\ FallbackUsed <=> tags = <<>>
        /\ tags # <<>> =>
              /\ {tagKeys[i] : i \in DOMAIN tagKeys} = {tags[i].Key : i \in DOMAIN tags}
              /\ \A i, j \in DOMAIN tagKeys :
                    i < j => FirstIndex(tagKeys[i]) < FirstIndex(tagKeys[j])
        /\ tags = <<>> =>
              /\ \A i \in DOMAIN instances : \A j \in DOMAIN instances[i].Tags :
                    \E n \in DOMAIN tagKeys : tagKeys[n] = instances[i].Tags[j].Key
              /\ \A n \in DOMAIN tagKeys :
                    \E i \in DOMAIN instances : \E j \in DOMAIN instances[i].Tags :
                        tagKeys[n] = instances[i].Tags[j].Key
              /\ \A m, n \in DOMAIN tagKeys : m < n => StrLess(tagKeys[m], tagKeys[n])

\* the fallback on an instance tagged B that is not running, then one tagged A
C9_Witness ==
    /\ Grouping
    /\ tags = <<>>
    /\ Len(instances) = 2
    /\ Skipped(instances[1])
    /\ instances[1].Tags = <<Tag(B, X)>>
    /\ instances[2].Tags = <<Tag(A, X)>>
    /\ tagKeys = <<A, B>>

\* the running instances gone through are partitioned by signature
C10_Partition ==
    Grouping =>
        /\ \A i \in Processed : Signature(instances[i], tagKeys) \in DOMAIN targetGroups
        /\ \A k \in DOMAIN targetGroups :
              LET M == MembersOf(k)
                  ts == targetGroups[k].Targets
              IN /\ M # {}
                 /\ Len(ts) = Cardinality(M)
                 /\ \A j \in DOMAIN ts : ts[j] = Target(instances[NthOf(M, j)], port)
        /\ \A i \in Processed : \A k \in DOMAIN targetGroups :
              Cardinality({j \in DOMAIN targetGroups[k].Targets :
                              targetGroups[k].Targets[j] = Target(instances[i], port)})
                  = IF k = Signature(instances[i], tagKeys) THEN 1 ELSE 0

\* an iteration of the loop appends one target to one group, or nothing
C10_Step ==
    pc = "groupByTags" /\ pc' = "groupByTags" /\ gi' = gi + 1 =>
        LET inst == instances[gi]
            key == Signature(inst, tagKeys)
        IN /\ \A k \in DOMAIN targetGroups :
                 /\ k \in DOMAIN targetGroups'
                 /\ targetGroups'[k].Labels = targetGroups[k].Labels
                 /\ IsPrefix(targetGroups[k].Targets, targetGroups'[k].Targets)
           /\ Skipped(inst) => targetGroups' = targetGroups
           /\ ~Skipped(inst) =>
                 /\ DOMAIN targetGroups' = DOMAIN targetGroups \cup {key}
                 /\ \A k \in DOMAIN targetGroups \ {key} : targetGroups'[k] = targetGroups[k]
                 /\ targetGroups'[key].Targets =
                       (IF key \in DOMAIN targetGroups
                        THEN targetGroups[key].Targets ELSE <<>>)
                       \o <<Target(inst, port)>>

\* C10: after any number of iterations of groupByTags every running instance
\* gone through has exactly one target, in the group of its signature and in no
\* other; every group holds at least one target, in first-seen order; and an
\* iteration only appends one target to one group (made if new), leaving the
\* other groups and all labels of existing groups as they were.
C10_GroupsPartition == []C10_Partition /\ [][C10_Step]_vars

\* two running instances of one signature have been gone through
C10_Witness ==
    /\ pc = "groupByTags"
    /\ gi = 3
    /\ Cardinality(Processed) = 2
    /\ Cardinality(DOMAIN targetGroups) = 1
    /\ \A k \in DOMAIN targetGroups : Len(targetGroups[k].Targets) = 2

====
